---------------------------- MODULE Spec2Model ----------------------------
(***************************************************************************)
(* TradutorCPC (Primeirospassos/passo.py): translation between short       *)
(* Portuguese sentences and formulas of the classical propositional        *)
(* calculus, with a registry of propositional variables.                   *)
(*                                                                         *)
(* A Python string is a sequence of characters; every character is a       *)
(* one-token TLA+ string.  Characters outside ASCII are written with the   *)
(* tokens below:                                                           *)
(*     "~"  NOT SIGN (the negation symbol)                                 *)
(*     "&"  LOGICAL AND            "|"  LOGICAL OR                         *)
(*     ">"  RIGHTWARDS ARROW       "="  LEFT RIGHT ARROW                   *)
(*     "a~" LATIN SMALL LETTER A WITH TILDE                                *)
(***************************************************************************)
EXTENDS Integers, Sequences, FiniteSets, TLC

VARIABLES
    variaveis_proposicionais, \* the dict, in insertion order: <<[proposicao, var], ...>>
    proxima_variavel,         \* the next letter to allocate
    pc,                       \* "idle", or "parens": inside cpc_para_nl's while loop
    formula,                  \* cpc_para_nl's local variable formula while pc = "parens"
    op,                       \* the last operation called: "none", "obter", "nl", "cpc"
    arg,                      \* its argument
    ret                       \* its return value (<<>> while a call is running)

vars == <<variaveis_proposicionais, proxima_variavel, pc, formula, op, arg, ret>>

---------------------------------------------------------------------------
(* Bounds of the model *)

\* The registry holds at most MaxVars propositions.
MaxVars == 3
\* The formulas given to cpc_para_nl include every string of at most
\* MaxFormulaLen characters over FormulaChars.
MaxFormulaLen == 3

---------------------------------------------------------------------------
(* Characters *)

NEG == "~"
AND == "&"
OR  == "|"
IMP == ">"
IFF == "="
a_til == "a~"

\* The character class [^¬→↔∧∨] of _processar_operadores is the complement of this set.
SimbolosOperadores == {NEG, IMP, IFF, AND, OR}

Maiusculas == <<"A","B","C","D","E","F","G","H","I","J","K","L","M",
                "N","O","P","Q","R","S","T","U","V","W","X","Y","Z">>
Minusculas == <<"a","b","c","d","e","f","g","h","i","j","k","l","m",
                "n","o","p","q","r","s","t","u","v","w","x","y","z">>

\* ord and chr on the letters 'A'..'Z' (code points 65..90).
ord(c) == 64 + (CHOOSE i \in 1..26 : Maiusculas[i] = c)
chr(n) == Maiusculas[n - 64]

\* str.lower on one character.
lower_char(c) ==
    IF \E i \in 1..26 : Maiusculas[i] = c
    THEN Minusculas[CHOOSE i \in 1..26 : Maiusculas[i] = c]
    ELSE c

\* \s of the regular expressions and the characters str.strip removes.
EhEspaco(c) == c = " "

\* \w of the regular expressions: letters, digits and the underscore.
EhPalavra(c) ==
    \/ \E i \in 1..26 : Maiusculas[i] = c \/ Minusculas[i] = c
    \/ c \in {a_til, "_", "0", "1", "2", "3", "4", "5", "6", "7", "8", "9"}

---------------------------------------------------------------------------
(* Python string methods *)

Menor(S) == CHOOSE x \in S : \A y \in S : x <= y
Maior(S) == CHOOSE x \in S : \A y \in S : x >= y

\* s.strip()
strip(s) ==
    LET cheios == {i \in 1..Len(s) : ~EhEspaco(s[i])}
    IN  IF cheios = {} THEN <<>> ELSE SubSeq(s, Menor(cheios), Maior(cheios))

\* s.lower()
lower(s) == [i \in 1..Len(s) |-> lower_char(s[i])]

\* old occurs in s at position i
OcorreEm(s, old, i) ==
    /\ i + Len(old) - 1 <= Len(s)
    /\ SubSeq(s, i, i + Len(old) - 1) = old

RECURSIVE replace_de(_, _, _, _)
replace_de(s, old, new, i) ==
    IF i > Len(s) THEN <<>>
    ELSE IF OcorreEm(s, old, i)
         THEN new \o replace_de(s, old, new, i + Len(old))
         ELSE <<s[i]>> \o replace_de(s, old, new, i + 1)

\* s.replace(old, new) for a non-empty old: every non-overlapping occurrence,
\* from the left.
replace(s, old, new) == replace_de(s, old, new, 1)

\* c in s
Contem(s, c) == \E i \in 1..Len(s) : s[i] = c

---------------------------------------------------------------------------
(* The registry *)

\* proposicao in self.variaveis_proposicionais
Registrada(reg, proposicao) == \E i \in 1..Len(reg) : reg[i].proposicao = proposicao

\* self.variaveis_proposicionais[proposicao]
VarDe(reg, proposicao) ==
    reg[CHOOSE i \in 1..Len(reg) : reg[i].proposicao = proposicao].var

\* obter_variavel without .lower() at line 39.
obter_variavel_sem_lower(r, proposicao) ==
    LET proposicao_limpa == strip(proposicao)
        novo == IF Registrada(r.vars, proposicao_limpa)
                THEN r
                ELSE [vars |-> Append(r.vars, [proposicao |-> proposicao_limpa,
                                               var |-> r.prox]),
                      prox |-> chr(ord(r.prox) + 1)]
    IN  [reg |-> novo, out |-> <<VarDe(novo.vars, proposicao_limpa)>>]

\* obter_variavel without line 43: the cursor is not advanced.
obter_variavel_sem_avanco(r, proposicao) ==
    LET proposicao_limpa == lower(strip(proposicao))
        novo == IF Registrada(r.vars, proposicao_limpa)
                THEN r
                ELSE [vars |-> Append(r.vars, [proposicao |-> proposicao_limpa,
                                               var |-> r.prox]),
                      prox |-> r.prox]
    IN  [reg |-> novo, out |-> <<VarDe(novo.vars, proposicao_limpa)>>]

\* obter_variavel on the registry [vars, prox]: the registry after the call
\* and the returned variable.
obter_variavel(r, proposicao) ==
    LET proposicao_limpa == lower(strip(proposicao))
        novo == IF Registrada(r.vars, proposicao_limpa)
                THEN r
                ELSE [vars |-> Append(r.vars, [proposicao |-> proposicao_limpa,
                                               var |-> r.prox]),
                      prox |-> chr(ord(r.prox) + 1)]
    IN  [reg |-> novo, out |-> <<VarDe(novo.vars, proposicao_limpa)>>]

Registro == [vars |-> variaveis_proposicionais, prox |-> proxima_variavel]

---------------------------------------------------------------------------
(* CPC -> NL *)

\* conectivos_cpc_para_nl with the word of the other table for the arrow.
conectivos_cpc_para_nl_entao(operador) ==
    CASE operador = AND -> <<"e">>
      [] operador = OR  -> <<"o","u">>
      [] operador = NEG -> <<"n",a_til,"o">>
      [] operador = IMP -> <<"e","n","t",a_til,"o">>
      [] operador = IFF -> <<"s","e"," ","e"," ","s","o","m","e","n","t","e"," ","s","e">>

\* self.conectivos_cpc_para_nl[operador]
conectivos_cpc_para_nl(operador) ==
    CASE operador = AND -> <<"e">>
      [] operador = OR  -> <<"o","u">>
      [] operador = NEG -> <<"n",a_til,"o">>
      [] operador = IMP -> <<"i","m","p","l","i","c","a">>
      [] operador = IFF -> <<"s","e"," ","e"," ","s","o","m","e","n","t","e"," ","s","e">>

\* _obter_proposicao: the first proposition whose variable is the stripped
\* token, else the stripped token.
_obter_proposicao(reg, variavel) ==
    LET v == strip(variavel)
        achados == {i \in 1..Len(reg) : <<reg[i].var>> = v}
    IN  IF achados # {} THEN reg[Menor(achados)].proposicao ELSE v

RECURSIVE traduzir_de(_, _, _)
traduzir_de(reg, f, i) ==
    IF i > Len(reg) THEN f
    ELSE traduzir_de(reg, replace(f, <<reg[i].var>>, reg[i].proposicao), i + 1)

\* _traduzir_variaveis: one str.replace per registry entry, in insertion order.
_traduzir_variaveis(reg, f) == traduzir_de(reg, f, 1)

\* The places of operador where ([^ops]+)operador([^ops]+) matches: the
\* symbol stands between two characters that are not operator symbols.
Casamentos(f, operador) ==
    {k \in 2..(Len(f) - 1) : /\ f[k] = operador
                             /\ f[k - 1] \notin SimbolosOperadores
                             /\ f[k + 1] \notin SimbolosOperadores}

\* re.search of ([^ops]+)operador([^ops]+): the leftmost match, both groups
\* greedy, so each is a maximal run of characters that are not operator symbols.
BuscaOperador(f, operador) ==
    LET k == Menor(Casamentos(f, operador))
        ini == Menor({i \in 1..(k - 1) : \A j \in i..(k - 1) : f[j] \notin SimbolosOperadores})
        fim == Maior({i \in (k + 1)..Len(f) : \A j \in (k + 1)..i : f[j] \notin SimbolosOperadores})
    IN  [tudo |-> SubSeq(f, ini, fim),
         esquerda |-> SubSeq(f, ini, k - 1),
         direita |-> SubSeq(f, k + 1, fim)]

\* The text that replaces one match (lines 136-145).
TraducaoDe(reg, operador, m) ==
    LET esquerda == strip(m.esquerda)
        direita == strip(m.direita)
    IN  IF operador = NEG
        THEN conectivos_cpc_para_nl(NEG) \o <<" ">> \o _obter_proposicao(reg, direita)
        ELSE _obter_proposicao(reg, esquerda) \o <<" ">>
                \o conectivos_cpc_para_nl(operador) \o <<" ">>
                \o _obter_proposicao(reg, direita)

\* The while True loop of _processar_operadores for one operator.
RECURSIVE resolver_operador(_, _, _)
resolver_operador(reg, f, operador) ==
    IF Casamentos(f, operador) = {} THEN f
    ELSE LET m == BuscaOperador(f, operador)
         IN  resolver_operador(reg, replace(f, m.tudo, TraducaoDe(reg, operador, m)),
                               operador)

RECURSIVE processar_de(_, _, _, _)
processar_de(reg, f, operadores, i) ==
    IF i > Len(operadores) THEN f
    ELSE processar_de(reg, resolver_operador(reg, f, operadores[i]), operadores, i + 1)

\* _processar_operadores(formula, operadores)
_processar_operadores(reg, f, operadores) == processar_de(reg, f, operadores, 1)

\* The starts of the matches of \(([^()]+)\): an opening parenthesis, one or
\* more characters that are not parentheses, a closing parenthesis.
Grupos(f) ==
    {i \in 1..Len(f) :
        /\ f[i] = "("
        /\ \E j \in (i + 2)..Len(f) :
              /\ f[j] = ")"
              /\ \A m \in (i + 1)..(j - 1) : f[m] \notin {"(", ")"}}

\* _processar_parenteses: the leftmost innermost group is resolved and every
\* occurrence of its text is replaced; without a match formula is returned as is.
_processar_parenteses(reg, f) ==
    IF Grupos(f) = {} THEN f
    ELSE LET i == Menor(Grupos(f))
             j == Menor({m \in (i + 1)..Len(f) : f[m] = ")"})
             expressao_interna == SubSeq(f, i + 1, j - 1)
             traducao_interna ==
                 _traduzir_variaveis(reg,
                     _processar_operadores(reg, expressao_interna,
                                           <<IFF, IMP, OR, AND, NEG>>))
         IN  replace(f, SubSeq(f, i, j), traducao_interna)

\* cpc_para_nl after its while loop (lines 76-83).
resolver_plano(reg, f) ==
    LET f1 == _processar_operadores(reg, f, <<IFF>>)
        f2 == _processar_operadores(reg, f1, <<IMP>>)
        f3 == _processar_operadores(reg, f2, <<OR>>)
        f4 == _processar_operadores(reg, f3, <<AND>>)
        f5 == _processar_operadores(reg, f4, <<NEG>>)
    IN  _traduzir_variaveis(reg, f5)

\* What stands for the result of a call that never returns.
NaoRetorna == <<"<no return>">>

\* The while loop of cpc_para_nl (lines 73-74) run to its end: the formula
\* without "(" it leaves, or NaoRetorna when an iteration leaves a formula
\* with "(" as it was, so that the loop runs forever.
RECURSIVE laco_parenteses(_, _)
laco_parenteses(reg, f) ==
    IF ~Contem(f, "(") THEN f
    ELSE LET g == _processar_parenteses(reg, f)
         IN  IF g = f THEN NaoRetorna ELSE laco_parenteses(reg, g)

\* cpc_para_nl as a function of the registry and the formula.
cpc_para_nl(reg, f) ==
    LET g == laco_parenteses(reg, replace(f, <<" ">>, <<>>))
    IN  IF g = NaoRetorna THEN NaoRetorna ELSE resolver_plano(reg, g)

---------------------------------------------------------------------------
(* NL -> CPC *)

p_nao   == <<"n", a_til, "o">>
p_se    == <<"s", "e">>
p_entao == <<"e", "n", "t", a_til, "o">>
p_e     == <<"e">>
p_ou    == <<"o", "u">>
p_se_e_somente_se == <<"s","e"," ","e"," ","s","o","m","e","n","t","e"," ","s","e">>

\* re.sub(r'[.!?]$', '', sentenca)
sem_pontuacao_final(s) ==
    IF Len(s) > 0 /\ s[Len(s)] \in {".", "!", "?"} THEN SubSeq(s, 1, Len(s) - 1) ELSE s

\* The starts of the matches of não\s+(\w+): the word, one or more spaces,
\* and a word character after them.
CasamentosNegacao(s) ==
    {i \in 1..Len(s) :
        /\ OcorreEm(s, p_nao, i)
        /\ \E j \in (i + 4)..Len(s) :
              /\ \A m \in (i + 3)..(j - 1) : EhEspaco(s[m])
              /\ EhPalavra(s[j])}

\* re.search of não\s+(\w+): group 1 of the leftmost match, a maximal run
\* of word characters.
BuscaNegacao(s) ==
    LET i == Menor(CasamentosNegacao(s))
        j == Menor({m \in (i + 4)..Len(s) : ~EhEspaco(s[m])})
        fim == Maior({m \in j..Len(s) : \A n \in j..m : EhPalavra(s[n])})
    IN  <<SubSeq(s, j, fim)>>

\* The places c of palavra where (.+)\s+palavra\s+(.+) matches with group 1
\* starting at inicio: a space before and after the word, at least one
\* character of group 1 before that space and one of group 2 after.
CasamentosBinarios(s, palavra, inicio) ==
    {c \in (inicio + 2)..(Len(s) - Len(palavra) - 1) :
        /\ OcorreEm(s, palavra, c)
        /\ EhEspaco(s[c - 1])
        /\ EhEspaco(s[c + Len(palavra)])}

\* The groups of (.+)\s+palavra\s+(.+) matched from inicio.  Every
\* quantifier is greedy: group 1 is as long as a match allows (the last
\* place of the word, leaving one space to \s+), then the \s+ after the word
\* takes every space it can while leaving a character to group 2, which
\* runs to the end of the string.
BuscaBinaria(s, palavra, inicio) ==
    LET c == Maior(CasamentosBinarios(s, palavra, inicio))
        depois == c + Len(palavra)
        d == Maior({m \in (depois + 1)..Len(s) : \A n \in depois..(m - 1) : EhEspaco(s[n])})
    IN  <<SubSeq(s, inicio, c - 2), SubSeq(s, d, Len(s))>>

\* The starts a of group 1 in the matches of se\s+(.+)\s+então\s+(.+) that
\* begin at i.
IniciosImplicacao(s, i) ==
    {a \in (i + 3)..Len(s) :
        /\ \A m \in (i + 2)..(a - 1) : EhEspaco(s[m])
        /\ CasamentosBinarios(s, p_entao, a) # {}}

CasamentosImplicacao(s) ==
    {i \in 1..Len(s) : OcorreEm(s, p_se, i) /\ IniciosImplicacao(s, i) # {}}

\* re.search of se\s+(.+)\s+então\s+(.+): the leftmost match; its first \s+
\* is greedy, so group 1 starts as far right as a match allows.
BuscaImplicacao(s) ==
    LET i == Menor(CasamentosImplicacao(s))
        a == Maior(IniciosImplicacao(s, i))
    IN  BuscaBinaria(s, p_entao, a)

\* _processar_negacao
_processar_negacao(r, grupos) ==
    LET v == obter_variavel(r, grupos[1])
    IN  [reg |-> v.reg, out |-> <<NEG>> \o v.out]

RECURSIVE nl_para_cpc(_, _)

\* f"({self.nl_para_cpc(a)} simbolo {self.nl_para_cpc(b)})": the left call
\* runs before the right one, on the registry the left one leaves.
composta(r, a, simbolo, b) ==
    LET x == nl_para_cpc(r, a)
        y == nl_para_cpc(x.reg, b)
    IN  [reg |-> y.reg,
         out |-> <<"(">> \o x.out \o <<" ", simbolo, " ">> \o y.out \o <<")">>]

\* _processar_implicacao
_processar_implicacao(r, grupos) == composta(r, grupos[1], IMP, grupos[2])

\* _processar_conjuncao with the right side translated before the left one.
_processar_conjuncao_invertida(r, grupos) ==
    LET y == nl_para_cpc(r, grupos[2])
        x == nl_para_cpc(y.reg, grupos[1])
    IN  [reg |-> x.reg,
         out |-> <<"(">> \o x.out \o <<" ", AND, " ">> \o y.out \o <<")">>]

\* _processar_conjuncao
_processar_conjuncao(r, grupos) == composta(r, grupos[1], AND, grupos[2])

\* _processar_disjuncao
_processar_disjuncao(r, grupos) == composta(r, grupos[1], OR, grupos[2])

\* _processar_bicondicional
_processar_bicondicional(r, grupos) == composta(r, grupos[1], IFF, grupos[2])

\* nl_para_cpc on the registry r: the registry after the call and the
\* returned formula.  The patterns of padroes_nl are tried in their order and
\* the first that matches decides.
nl_para_cpc(r, sentenca0) ==
    LET sentenca == sem_pontuacao_final(strip(lower(sentenca0)))
    IN  IF CasamentosNegacao(sentenca) # {}
            THEN _processar_negacao(r, BuscaNegacao(sentenca))
        ELSE IF CasamentosImplicacao(sentenca) # {}
            THEN _processar_implicacao(r, BuscaImplicacao(sentenca))
        ELSE IF CasamentosBinarios(sentenca, p_e, 1) # {}
            THEN _processar_conjuncao(r, BuscaBinaria(sentenca, p_e, 1))
        ELSE IF CasamentosBinarios(sentenca, p_ou, 1) # {}
            THEN _processar_disjuncao(r, BuscaBinaria(sentenca, p_ou, 1))
        ELSE IF CasamentosBinarios(sentenca, p_se_e_somente_se, 1) # {}
            THEN _processar_bicondicional(r, BuscaBinaria(sentenca, p_se_e_somente_se, 1))
        ELSE obter_variavel(r, sentenca)

---------------------------------------------------------------------------
(* Inputs *)

chove == <<"c","h","o","v","e">>
neva  == <<"n","e","v","a">>
faz_frio == <<"f","a","z"," ","f","r","i","o">>
faz_sol  == <<"f","a","z"," ","s","o","l">>

\* Texts given to obter_variavel: the same propositions in several casings
\* and with surrounding whitespace, and the empty text.
Textos ==
    { chove, <<"C","h","o","v","e">>, <<" ","C","H","O","V","E"," ">>,
      faz_frio, <<"F","a","z"," ","f","r","i","o"," "," ">>, neva, <<>> }

\* a b: the two texts with one space between them.
Junta(a, b) == a \o <<" ">> \o b

\* Clauses without any connective word.
Clausulas == {chove, faz_frio, neva}

Conjuncao(l, r) == Junta(l, Junta(p_e, r))
Disjuncao(l, r) == Junta(l, Junta(p_ou, r))
Bicondicional(l, r) == Junta(l, Junta(p_se_e_somente_se, r))
Implicacao(x, y) == Junta(p_se, Junta(x, Junta(p_entao, y)))

\* Sentences after the examples of the demonstration (lines 178-185), one per
\* pattern, and an atomic sentence with a capital and a final full stop.
SentencasDemo ==
    { chove, Junta(p_nao, chove), Conjuncao(chove, faz_frio), Disjuncao(chove, faz_sol),
      Implicacao(chove, neva), Bicondicional(chove, neva),
      <<"C","h","o","v","e",".">>, <<>> }

\* The two sides of the implications given to nl_para_cpc in SpecNL: atomic
\* clauses, negations, conjunctions and disjunctions.
Lados ==
    Clausulas
    \cup {Junta(p_nao, chove), Junta(p_nao, neva)}
    \cup {Conjuncao(chove, neva), Conjuncao(faz_frio, chove)}
    \cup {Disjuncao(chove, neva)}

\* Sentences given to nl_para_cpc in SpecNL.
Sentencas ==
    {Conjuncao(l, r) : l \in Clausulas, r \in Clausulas}
    \cup {Bicondicional(l, r) : l \in Clausulas, r \in Clausulas}
    \cup {Implicacao(x, y) : x \in Lados, y \in Lados}
    \cup {<<"C","h","o","v","e"," ","E"," ","N","e","v","a","!">>, neva}

\* The characters of the enumerated formulas.
FormulaChars == {"A", "B", "(", ")", NEG, AND}

RECURSIVE Cadeias(_)
\* The strings of exactly n characters over FormulaChars.
Cadeias(n) ==
    IF n = 0 THEN {<<>>}
    ELSE {Append(s, c) : s \in Cadeias(n - 1), c \in FormulaChars}

\* "(X op Y)" written as the demonstration does, with spaces.
Binaria(x, operador, y) == <<"(", x, " ", operador, " ", y, ")">>

\* The formulas of the demonstration (lines 202-209) and some with unmatched
\* or empty parentheses.
FormulasDemo ==
    { <<"A">>, <<NEG, "A">>, Binaria("A", AND, "B"), Binaria("A", OR, "C"),
      Binaria("A", IMP, "D"), Binaria("A", IFF, "E"),
      <<"(", "A">>, <<"(", ")">>, <<"(", "(", "A", AND, "B", ")">>, <<"A", ")">> }

\* Formulas given to cpc_para_nl in SpecCPC.
Formulas ==
    UNION {Cadeias(n) : n \in 1..MaxFormulaLen}
    \cup {Binaria(x, o, y) : x \in {"A", "B", "C"}, o \in {AND, OR, IMP, IFF},
                             y \in {"A", "B", "C"}}
    \cup {<<NEG, x>> : x \in {"A", "B", "C"}}
    \cup FormulasDemo

---------------------------------------------------------------------------
(* Operations *)

\* TradutorCPC() (lines 4-6).
Init ==
    /\ variaveis_proposicionais = <<>>
    /\ proxima_variavel = "A"
    /\ pc = "idle"
    /\ formula = <<>>
    /\ op = "none"
    /\ arg = <<>>
    /\ ret = <<>>

\* The caller is ready for its next call.
Livre == pc = "idle" /\ op = "none"

\* A call of obter_variavel.
ObterVariavel(texto) ==
    /\ Livre
    /\ LET r == obter_variavel(Registro, texto)
       IN  /\ Len(r.reg.vars) <= MaxVars
           /\ variaveis_proposicionais' = r.reg.vars
           /\ proxima_variavel' = r.reg.prox
           /\ ret' = r.out
    /\ op' = "obter"
    /\ arg' = texto
    /\ UNCHANGED <<pc, formula>>

\* A call of nl_para_cpc, with the calls it makes.
NlParaCpc(sentenca) ==
    /\ Livre
    /\ LET r == nl_para_cpc(Registro, sentenca)
       IN  /\ Len(r.reg.vars) <= MaxVars
           /\ variaveis_proposicionais' = r.reg.vars
           /\ proxima_variavel' = r.reg.prox
           /\ ret' = r.out
    /\ op' = "nl"
    /\ arg' = sentenca
    /\ UNCHANGED <<pc, formula>>

\* cpc_para_nl is called: spaces are removed (line 70) and the while loop is
\* entered.
CpcParaNl(f) ==
    /\ Livre
    /\ pc' = "parens"
    /\ formula' = replace(f, <<" ">>, <<>>)
    /\ op' = "cpc"
    /\ arg' = f
    /\ ret' = <<>>
    /\ UNCHANGED <<variaveis_proposicionais, proxima_variavel>>

\* One iteration of while '(' in formula (lines 73-74).
ProcessarParenteses ==
    /\ pc = "parens"
    /\ Contem(formula, "(")
    /\ formula' = _processar_parenteses(variaveis_proposicionais, formula)
    /\ UNCHANGED <<variaveis_proposicionais, proxima_variavel, pc, op, arg, ret>>

\* cpc_para_nl registering the text it returns, as nl_para_cpc does with an
\* atomic sentence.
CpcParaNlRetorna_registra ==
    /\ pc = "parens"
    /\ ~Contem(formula, "(")
    /\ ret' = resolver_plano(variaveis_proposicionais, formula)
    /\ pc' = "idle"
    /\ formula' = <<>>
    /\ LET r == obter_variavel(Registro, resolver_plano(variaveis_proposicionais, formula))
       IN  /\ variaveis_proposicionais' = r.reg.vars
           /\ proxima_variavel' = r.reg.prox
    /\ UNCHANGED <<op, arg>>

\* The loop is left, the operators are resolved and cpc_para_nl returns
\* (lines 76-83).
CpcParaNlRetorna ==
    /\ pc = "parens"
    /\ ~Contem(formula, "(")
    /\ ret' = resolver_plano(variaveis_proposicionais, formula)
    /\ pc' = "idle"
    /\ formula' = <<>>
    /\ UNCHANGED <<variaveis_proposicionais, proxima_variavel, op, arg>>

\* The caller has used the result and goes to its next call (the loops of
\* demonstrar_agente).
Proxima ==
    /\ pc = "idle"
    /\ op # "none"
    /\ op' = "none"
    /\ arg' = <<>>
    /\ ret' = <<>>
    /\ UNCHANGED <<variaveis_proposicionais, proxima_variavel, pc, formula>>

Registrar == \E texto \in Textos : ObterVariavel(texto)
TraduzirSentencaDemo == \E sentenca \in SentencasDemo : NlParaCpc(sentenca)
TraduzirSentenca == \E sentenca \in Sentencas : NlParaCpc(sentenca)
TraduzirFormulaDemo == \E f \in FormulasDemo : CpcParaNl(f)
TraduzirFormula == \E f \in Formulas : CpcParaNl(f)

\* One translator used for registration and for both directions.
Next ==
    \/ Registrar
    \/ TraduzirSentencaDemo
    \/ TraduzirFormulaDemo
    \/ ProcessarParenteses
    \/ CpcParaNlRetorna
    \/ Proxima

Spec == Init /\ [][Next]_vars

\* NL -> CPC alone, on every sentence of Sentencas.
NextNL ==
    \/ TraduzirSentenca
    \/ Proxima

SpecNL == Init /\ [][NextNL]_vars

\* Registration and CPC -> NL alone, on every formula of Formulas.
NextCPC ==
    \/ Registrar
    \/ TraduzirFormula
    \/ ProcessarParenteses
    \/ CpcParaNlRetorna
    \/ Proxima

SpecCPC == Init /\ [][NextCPC]_vars


---------------------------------------------------------------------------
(* Properties *)

\* The registry is one-to-one: equal variables exactly at equal propositions.
UmParaUm(reg) ==
    \A i, j \in 1..Len(reg) :
        (reg[i].var = reg[j].var) <=> (reg[i].proposicao = reg[j].proposicao)

\* C1: registry bijection.  In every state the registry maps distinct
\* propositions to distinct variables; every call of obter_variavel returns
\* the variable registered for the trimmed, lower-cased text, and when that
\* text was registered before the call it returns the variable assigned the
\* first time and changes nothing.
C1_RegistryBijection ==
    [][ /\ UmParaUm(variaveis_proposicionais')
        /\ op' = "obter" =>
             LET chave == lower(strip(arg'))
             IN  /\ Registrada(variaveis_proposicionais', chave)
                 /\ ret' = <<VarDe(variaveis_proposicionais', chave)>>
                 /\ Registrada(variaveis_proposicionais, chave) =>
                       /\ ret' = <<VarDe(variaveis_proposicionais, chave)>>
                       /\ UNCHANGED <<variaveis_proposicionais, proxima_variavel>>
      ]_vars

\* A repeated registration in another casing, with spaces around, returned
\* the first variable although another proposition came between.
C1_Witness ==
    /\ op = "obter"
    /\ arg = <<" ","C","H","O","V","E"," ">>
    /\ ret = <<"A">>
    /\ Len(variaveis_proposicionais) = 2
    /\ variaveis_proposicionais[1].proposicao = chove

\* C2: allocation order.  In every state the Nth proposition registered
\* holds the Nth letter from 'A', the propositions are distinct, and the
\* cursor is the letter at offset (number of propositions) from 'A'.
C2_AllocationOrder ==
    /\ \A i \in 1..Len(variaveis_proposicionais) :
          variaveis_proposicionais[i].var = chr(ord("A") + i - 1)
    /\ \A i, j \in 1..Len(variaveis_proposicionais) :
          i # j => variaveis_proposicionais[i].proposicao
                     # variaveis_proposicionais[j].proposicao
    /\ proxima_variavel = chr(ord("A") + Len(variaveis_proposicionais))

\* Three propositions hold A, B, C after calls of the three operations.
C2_Witness ==
    /\ Len(variaveis_proposicionais) = 3
    /\ variaveis_proposicionais[3].var = "C"
    /\ proxima_variavel = "D"
    /\ op = "cpc"
    /\ pc = "idle"
    /\ \E i \in 1..3 : variaveis_proposicionais[i].proposicao = Junta(chove, p_se)

\* C3: CPC -> NL negation.  cpc_para_nl of the negation symbol followed by a
\* registered variable returns "não", a space and the variable's
\* proposition, without any negation symbol.
C3_NegationToText ==
    \A i \in 1..Len(variaveis_proposicionais) :
        (pc = "idle" /\ op = "cpc" /\ arg = <<NEG, variaveis_proposicionais[i].var>>)
        => /\ ret = Junta(p_nao, variaveis_proposicionais[i].proposicao)
           /\ ~Contem(ret, NEG)

\* The canonical word of each binary symbol, as the claim C4 lists them.
PalavraCanonica(operador) ==
    CASE operador = AND -> <<"e">>
      [] operador = OR  -> <<"o","u">>
      [] operador = IMP -> <<"i","m","p","l","i","c","a">>
      [] operador = IFF -> p_se_e_somente_se

\* C4: CPC -> NL binary connective.  For registered variables X and Y and a
\* binary symbol, the while loop of cpc_para_nl("(X op Y)") always resolves a
\* group while a "(" is left, and the call returns the proposition of X, the
\* canonical word of the symbol and the proposition of Y, separated by one
\* space.
C4_BinaryToText ==
    \A x, y \in 1..Len(variaveis_proposicionais) : \A o \in {AND, OR, IMP, IFF} :
        (op = "cpc" /\ arg = Binaria(variaveis_proposicionais[x].var, o,
                                    variaveis_proposicionais[y].var))
        => /\ (pc = "parens" /\ Contem(formula, "("))
                 => _processar_parenteses(variaveis_proposicionais, formula) # formula
           /\ pc = "idle"
                 => ret = Junta(variaveis_proposicionais[x].proposicao,
                                Junta(PalavraCanonica(o),
                                      variaveis_proposicionais[y].proposicao))

\* "(A -> B)" was translated with chove and faz frio registered.
C4_Witness ==
    /\ pc = "idle"
    /\ op = "cpc"
    /\ arg = Binaria("A", IMP, "B")
    /\ Len(variaveis_proposicionais) >= 2
    /\ variaveis_proposicionais[1].proposicao = chove
    /\ variaveis_proposicionais[2].proposicao = faz_frio
    /\ ret = Junta(chove, Junta(<<"i","m","p","l","i","c","a">>, faz_frio))

\* C5: NL -> CPC conjunction.  For clauses L and R without connective
\* words, nl_para_cpc of "L e R" (in any casing, with or without a final
\* punctuation mark) returns "(VL & VR)" with the registry variables of L and
\* R, and when neither was registered L is registered first and R next.
C5_Conjunction ==
    [][ \A l, r \in Clausulas :
          (op' = "nl" /\ sem_pontuacao_final(strip(lower(arg'))) = Conjuncao(l, r))
          => /\ Registrada(variaveis_proposicionais', l)
             /\ Registrada(variaveis_proposicionais', r)
             /\ ret' = <<"(", VarDe(variaveis_proposicionais', l), " ", AND, " ",
                         VarDe(variaveis_proposicionais', r), ")">>
             /\ (l # r /\ ~Registrada(variaveis_proposicionais, l)
                       /\ ~Registrada(variaveis_proposicionais, r))
                  => variaveis_proposicionais' =
                        variaveis_proposicionais \o
                          << [proposicao |-> l, var |-> proxima_variavel],
                             [proposicao |-> r, var |-> chr(ord(proxima_variavel) + 1)] >>
      ]_vars

\* On the empty registry "chove e faz frio" gave "(A & B)".
C5_Witness ==
    /\ op = "nl"
    /\ arg = Conjuncao(chove, faz_frio)
    /\ ret = <<"(", "A", " ", AND, " ", "B", ")">>
    /\ variaveis_proposicionais = << [proposicao |-> chove, var |-> "A"],
                                     [proposicao |-> faz_frio, var |-> "B"] >>

\* C6: NL -> CPC biconditional.  nl_para_cpc of "L se e somente se R", for
\* clauses L and R without connective words, returns "(VL <-> VR)" with the
\* registry variables of L and R.
C6_Biconditional ==
    \A l, r \in Clausulas :
        (op = "nl" /\ arg = Bicondicional(l, r))
        => /\ Registrada(variaveis_proposicionais, l)
           /\ Registrada(variaveis_proposicionais, r)
           /\ ret = <<"(", VarDe(variaveis_proposicionais, l), " ", IFF, " ",
                      VarDe(variaveis_proposicionais, r), ")">>

\* C7: NL -> CPC implication is compositional.  nl_para_cpc of
\* "se X então Y" returns "(", the translation of X, the arrow between two
\* spaces, the translation of Y and ")", also when X or Y is a negation, a
\* conjunction or a disjunction.
C7_ImplicationCompositional ==
    \A x, y \in Lados :
        (op = "nl" /\ arg = Implicacao(x, y))
        => LET tx == nl_para_cpc(Registro, x)
               ty == nl_para_cpc(tx.reg, y)
           IN  ret = <<"(">> \o tx.out \o <<" ", IMP, " ">> \o ty.out \o <<")">>

\* Every ")" of f closes a "(" before it and every "(" is closed.
RECURSIVE Profundidade(_, _)
Profundidade(f, n) ==
    IF n = 0 THEN 0
    ELSE Profundidade(f, n - 1)
         + (IF f[n] = "(" THEN 1 ELSE IF f[n] = ")" THEN -1 ELSE 0)

Balanceada(f) ==
    /\ \A n \in 1..Len(f) : Profundidade(f, n) >= 0
    /\ Profundidade(f, Len(f)) = 0

\* C8: parenthesis-wrapping idempotence.  When cpc_para_nl has returned for
\* a non-empty formula F with balanced parentheses, cpc_para_nl of "(F)" on
\* the same registry returns the same text.
C8_ParenIdempotence ==
    (pc = "idle" /\ op = "cpc" /\ arg # <<>> /\ Balanceada(arg))
    => cpc_para_nl(variaveis_proposicionais, <<"(">> \o arg \o <<")">>) = ret

\* C9: termination of CPC -> NL.  A running call of cpc_para_nl can always
\* take a step that changes its state (an iteration of the loop that rewrites
\* the formula, or the return), whatever the formula, so that the call
\* returns; a formula with unmatched or empty parentheses is returned with
\* its parentheses left in the text.
C9_Terminates ==
    pc = "parens" => ENABLED <<ProcessarParenteses \/ CpcParaNlRetorna>>_vars

\* C10: frame of CPC -> NL.  No step of cpc_para_nl changes the registry or
\* the cursor; every step keeps the entries the registry has, in their
\* places; and the registry changes only in a call of obter_variavel or
\* nl_para_cpc.
C10_FrameCpc ==
    [][ /\ op' = "cpc" => UNCHANGED <<variaveis_proposicionais, proxima_variavel>>
        /\ Len(variaveis_proposicionais) <= Len(variaveis_proposicionais')
        /\ \A i \in 1..Len(variaveis_proposicionais) :
              variaveis_proposicionais'[i] = variaveis_proposicionais[i]
        /\ variaveis_proposicionais' # variaveis_proposicionais
              => op' \in {"obter", "nl"}
      ]_vars

\* cpc_para_nl has returned a text on a registry of two propositions.
C10_Witness ==
    /\ pc = "idle"
    /\ op = "cpc"
    /\ arg = Binaria("A", AND, "B")
    /\ ret = Junta(chove, Junta(p_e, faz_frio))
    /\ Len(variaveis_proposicionais) = 2

=============================================================================
